---- MODULE Spec2Model ----
(***************************************************************************)
(* Model of the gesture streaming backend: backend/app.py (session         *)
(* control and the stream_camera worker), backend/hand_tracker.py (the     *)
(* landmark smoothing window) and backend/gesture_recognizer.py (finger    *)
(* detection, gesture classification and the confidence state).            *)
(*                                                                         *)
(* Numbers.  Coordinates are exact fixed-point integers: one model unit is *)
(* 1/60000 of the normalised image, and raw detector coordinates are       *)
(* multiples of Grid (0.01), so that every mean over 1..6 window entries   *)
(* followed by a midpoint (/2) or a palm centre (/5) is an exact integer.  *)
(* Confidence is counted in hundredths (0.15 = 15, 0.2 = 20, 1.0 = 100).   *)
(* math.sqrt is monotone, so a distance is carried as its square and       *)
(* compared against the squared threshold.                                 *)
(***************************************************************************)
EXTENDS Integers, Sequences, FiniteSets, TLC

VARIABLES
    camera,             \* app.camera: "None", "closed" (object, not opened), "open"
    hand_tracker,       \* app.hand_tracker / gesture_recognizer exist (set together)
    is_streaming,       \* app.is_streaming
    pc,                 \* position of each stream_camera thread
    frame_counter,      \* stream_camera local frame_counter of each thread
    out,                \* events emitted by the latest handler or worker step
    landmark_history,   \* HandTracker.landmark_history
    last_gesture,       \* GestureRecognizer.last_gesture
    gesture_confidence, \* GestureRecognizer.gesture_confidence (hundredths)
    hands_in,           \* argument of the latest recognize / classify call
    gesture,            \* candidate returned by _classify_gesture in that call
    result,             \* value returned by that recognize call
    calls,              \* number of recognize / smooth calls made so far
    same_type,          \* candidate type shared by all recognize calls so far
    supplied,           \* every sample passed to _smooth_landmarks so far
    prev_type,          \* candidate type of the previous recognize call with a hand
    no_repeat,          \* no two consecutive candidates so far had the same type
    late_frames,        \* camera_frame events of each thread since the flag was cleared
    now,                \* time.time(), in ticks
    start_time,         \* stream_camera local start_time
    elapsed,            \* stream_camera local elapsed of the latest completed cycle
    slept,              \* argument of the socketio.sleep call of that cycle
    fps_counter,        \* app.fps_counter
    last_fps_time,      \* app.last_fps_time
    frame_times,        \* app.frame_times
    acquired,           \* frames acquired by the running thread
    completed,          \* cycles completed since server start
    snapshot_times      \* times of the performance events emitted so far

vars == <<camera, hand_tracker, is_streaming, pc, frame_counter, out,
          landmark_history, last_gesture, gesture_confidence,
          hands_in, gesture, result, calls, same_type, supplied,
          prev_type, no_repeat,
          late_frames, now, start_time, elapsed, slept, fps_counter,
          last_fps_time, frame_times, acquired, completed, snapshot_times>>

sessionVars == <<camera, hand_tracker, is_streaming, pc, frame_counter, out,
                 late_frames>>
pipelineVars == <<landmark_history, last_gesture, gesture_confidence>>
callVars == <<hands_in, gesture, result, calls, same_type, supplied,
              prev_type, no_repeat>>
paceVars == <<now, start_time, elapsed, slept, fps_counter, last_fps_time,
              frame_times, acquired, completed, snapshot_times>>

(***************************************************************************)
(* Bounds of the model.                                                    *)
(***************************************************************************)
MaxWorkers == 2     \* stream_camera threads that may exist at once
MaxCalls == 12      \* recognize calls made in RecognizerSpec
MaxSmoothCalls == 8 \* _smooth_landmarks calls made in SmoothSpec
MaxFloatCalls == 7  \* _smooth_landmarks calls made in FloatSmoothSpec
FloatBits == 8      \* significand width of the floats of FloatSmoothSpec
MaxLateFrames == 2  \* late_frames stops counting here
MaxTime == 250      \* ticks the clock of PacerSpec runs for
MaxVaried == 2      \* cycles of PacerSpec whose processing time varies
MaxCounted == 4     \* acquired stops counting here

Workers == 1..MaxWorkers

(***************************************************************************)
(* Program constants.                                                      *)
(***************************************************************************)
Grid == 2 * 5 * 60  \* 0.01: divisible by every window length, by 2 and by 5
pinch_threshold == 3000
min_confidence == 20
confidence_increment == 15
confidence_decrement == 15
history_size == 6
preview_frame_skip == 2
target_fps == 60
max_frame_times == 60

NoneStr == "None"
PyNone == [py |-> "None"]

Min(a, b) == IF a < b THEN a ELSE b
Max(a, b) == IF a > b THEN a ELSE b

(***************************************************************************)
(* hand_tracker.py: the smoothing window.                                  *)
(***************************************************************************)
LandmarkIds == 0..20

RECURSIVE SumCoord(_, _, _, _)
\* sum(h[i][c] for h in history), over the first n entries
SumCoord(history, i, c, n) ==
    IF n = 0 THEN 0
    ELSE (CASE c = "x" -> history[n][i].x
            [] c = "y" -> history[n][i].y
            [] c = "z" -> history[n][i].z) + SumCoord(history, i, c, n - 1)

push_history_pop_last(history, landmarks) ==
    LET appended == Append(history, landmarks)
    IN  IF Len(appended) > history_size
        THEN SubSeq(appended, 1, Len(appended) - 1)
        ELSE appended

\* landmark_history.append(landmarks) followed by the bounded pop(0)
push_history(history, landmarks) ==
    LET appended == Append(history, landmarks)
    IN  IF Len(appended) > history_size THEN Tail(appended) ELSE appended

\* the moving average over the whole window, landmark by landmark
moving_average(history) ==
    [i \in LandmarkIds |->
        [x |-> SumCoord(history, i, "x", Len(history)) \div Len(history),
         y |-> SumCoord(history, i, "y", Len(history)) \div Len(history),
         z |-> SumCoord(history, i, "z", Len(history)) \div Len(history)]]

\* HandTracker._smooth_landmarks: the new window and the returned landmarks
smooth_landmarks(history, landmarks) ==
    LET h == push_history(history, landmarks)
    IN  [history |-> h,
         ret |-> IF Len(h) < 2 THEN landmarks ELSE moving_average(h)]

get_landmarks_clearing(history, results) ==
    IF results = <<>> THEN [history |-> <<>>, ret |-> <<>>]
    ELSE LET sm == smooth_landmarks(history, results[1].landmark)
         IN  [history |-> sm.history,
              ret |-> << [landmarks |-> sm.ret,
                          label |-> results[1].label,
                          wrist |-> sm.ret[0],
                          index_tip |-> sm.ret[8],
                          thumb_tip |-> sm.ret[4],
                          middle_tip |-> sm.ret[12]] >>]

\* HandTracker.get_landmarks.  results is the detector's hand list: <<>> when
\* multi_hand_landmarks is empty, one hand otherwise (max_num_hands = 1).
\* The returned hands_data is <<>> for Python's None (both are falsy and
\* get_landmarks never returns an empty list).
get_landmarks(history, results) ==
    IF results = <<>> THEN [history |-> history, ret |-> <<>>]
    ELSE LET sm == smooth_landmarks(history, results[1].landmark)
         IN  [history |-> sm.history,
              ret |-> << [landmarks |-> sm.ret,
                          label |-> results[1].label,
                          wrist |-> sm.ret[0],
                          index_tip |-> sm.ret[8],
                          thumb_tip |-> sm.ret[4],
                          middle_tip |-> sm.ret[12]] >>]

(***************************************************************************)
(* gesture_recognizer.py: finger states and classification.                *)
(***************************************************************************)
detect_fingers_up(landmarks) ==
    [thumb  |-> landmarks[4].x > landmarks[3].x,
     index  |-> landmarks[8].y < landmarks[6].y,
     middle |-> landmarks[12].y < landmarks[10].y,
     ring   |-> landmarks[16].y < landmarks[14].y,
     pinky  |-> landmarks[20].y < landmarks[18].y]

\* GestureRecognizer._calculate_distance, as the square of the distance
calculate_distance(point1, point2) ==
    LET dx == point1.x - point2.x
        dy == point1.y - point2.y
        dz == point1.z - point2.z
    IN  dx * dx + dy * dy + dz * dz

below_or_at_threshold(distance) == distance <= pinch_threshold * pinch_threshold

\* the squared form of  distance < pinch_threshold
below_threshold(distance) == distance < pinch_threshold * pinch_threshold

extended_count(fingers_up) ==
    (IF fingers_up.thumb THEN 1 ELSE 0) + (IF fingers_up.index THEN 1 ELSE 0)
    + (IF fingers_up.middle THEN 1 ELSE 0) + (IF fingers_up.ring THEN 1 ELSE 0)
    + (IF fingers_up.pinky THEN 1 ELSE 0)

is_point_unguarded(fingers_up, thumb_index_distance) ==
    /\ fingers_up.index
    /\ ~fingers_up.middle
    /\ ~fingers_up.ring
    /\ ~fingers_up.pinky

\* the guard of GESTURE 1
is_point(fingers_up, thumb_index_distance) ==
    /\ fingers_up.index
    /\ ~fingers_up.middle
    /\ ~fingers_up.ring
    /\ ~fingers_up.pinky
    /\ ~below_threshold(thumb_index_distance)

\* the guard of GESTURE 2
is_pinch(thumb_index_distance) == below_threshold(thumb_index_distance)

\* the guard of GESTURE 3
is_two_fingers(fingers_up) ==
    /\ fingers_up.index
    /\ fingers_up.middle
    /\ ~fingers_up.ring
    /\ ~fingers_up.pinky

\* GestureRecognizer._classify_gesture
classify_gesture(fingers_up, landmarks, hand) ==
    LET thumb_tip == landmarks[4]
        index_tip == landmarks[8]
        middle_tip == landmarks[12]
        thumb_index_distance == calculate_distance(thumb_tip, index_tip)
        count == extended_count(fingers_up)
    IN  IF is_point(fingers_up, thumb_index_distance) THEN
            [type |-> "point",
             position |-> [x |-> index_tip.x, y |-> index_tip.y],
             direction |-> [x |-> index_tip.x - landmarks[5].x,
                            y |-> index_tip.y - landmarks[5].y]]
        ELSE IF is_pinch(thumb_index_distance) THEN
            [type |-> "pinch",
             distance |-> thumb_index_distance,
             position |-> [x |-> (thumb_tip.x + index_tip.x) \div 2,
                           y |-> (thumb_tip.y + index_tip.y) \div 2]]
        ELSE IF is_two_fingers(fingers_up) THEN
            [type |-> "two_fingers",
             position |-> [x |-> (index_tip.x + middle_tip.x) \div 2,
                           y |-> (index_tip.y + middle_tip.y) \div 2],
             distance |-> calculate_distance(index_tip, middle_tip)]
        ELSE IF count >= 4 THEN
            [type |-> "open_palm",
             position |-> [x |-> (landmarks[0].x + landmarks[1].x + landmarks[2].x
                                  + landmarks[3].x + landmarks[4].x) \div 5,
                           y |-> (landmarks[0].y + landmarks[1].y + landmarks[2].y
                                  + landmarks[3].y + landmarks[4].y) \div 5],
             fingers_extended |-> count]
        ELSE [type |-> "none", extended_fingers |-> count]

(***************************************************************************)
(* gesture_recognizer.py: the confidence state and the returned gesture.   *)
(***************************************************************************)
CanonicalNone == [type |-> "none", confidence |-> 0]

next_confidence_unclamped(candidate, last, confidence) ==
    IF candidate.type = last
    THEN confidence + confidence_increment
    ELSE Max(0, confidence - confidence_decrement)

next_confidence_eager(candidate, last, confidence) ==
    IF candidate.type = last \/ last = NoneStr
    THEN Min(100, confidence + confidence_increment)
    ELSE Max(0, confidence - confidence_decrement)

next_confidence_reset(candidate, last, confidence) ==
    IF candidate.type = last
    THEN Min(100, confidence + confidence_increment)
    ELSE 0

\* lines 51-54: the confidence after the update
next_confidence(candidate, last, confidence) ==
    IF candidate.type = last
    THEN Min(100, confidence + confidence_increment)
    ELSE Max(0, confidence - confidence_decrement)

next_last_gesture_stale(candidate, last) == last

\* lines 51-55: last_gesture after the update
next_last_gesture(candidate, last) ==
    IF candidate.type = last THEN last ELSE candidate.type

returned_gesture_always(candidate, last, confidence) ==
    IF candidate.type # "none"
    THEN ("confidence" :> confidence) @@ candidate
    ELSE CanonicalNone

\* lines 58-65: the returned dictionary, evaluated on the updated state
returned_gesture(candidate, last, confidence) ==
    IF /\ candidate.type # "none"
       /\ (confidence >= min_confidence \/ candidate.type # last)
    THEN ("confidence" :> confidence) @@ candidate
    ELSE CanonicalNone

\* GestureRecognizer.recognize: returned value, new state and the candidate
recognize(hands_data, last, confidence) ==
    IF hands_data = <<>>
    THEN [ret |-> PyNone, last_gesture |-> last,
          gesture_confidence |-> confidence, gesture |-> PyNone]
    ELSE LET hand == hands_data[1]
             landmarks == hand.landmarks
             fingers_up == detect_fingers_up(landmarks)
             candidate == classify_gesture(fingers_up, landmarks, hand)
             confidence1 == next_confidence(candidate, last, confidence)
             last1 == next_last_gesture(candidate, last)
         IN  [ret |-> returned_gesture(candidate, last1, confidence1),
              last_gesture |-> last1,
              gesture_confidence |-> confidence1,
              gesture |-> candidate]

(***************************************************************************)
(* Detector outputs.  A raw hand is built on a fixed pose (grid units of   *)
(* 0.01): the thumb tip at (tx, 10, 0) against its IP joint at x = 8, the  *)
(* index tip at (tx + dx, iy, iz), and the middle, ring and pinky tips at  *)
(* heights my, ry, py against PIP joints at y = 10.                        *)
(***************************************************************************)
Pt(x, y, z) == [x |-> x * Grid, y |-> y * Grid, z |-> z * Grid]

MkHand(tx, dx, iy, iz, my, ry, py) ==
    [landmark |->
        [i \in LandmarkIds |->
            << Pt(10, 20, 0), Pt(9, 18, 0), Pt(8, 16, 0), Pt(8, 14, 0),
               Pt(tx, 10, 0),
               Pt(10, 12, 0), Pt(10, 10, 0), Pt(10, 8, 0), Pt(tx + dx, iy, iz),
               Pt(12, 12, 0), Pt(12, 10, 0), Pt(12, 8, 0), Pt(12, my, 0),
               Pt(14, 12, 0), Pt(14, 10, 0), Pt(14, 8, 0), Pt(14, ry, 0),
               Pt(16, 12, 0), Pt(16, 10, 0), Pt(16, 8, 0), Pt(16, py, 0) >>[i + 1]],
     label |-> "Right"]

PointHand == MkHand(7, 20, 6, 0, 14, 14, 14)
PinchHand == MkHand(7, 0, 6, 0, 14, 14, 14)
ClosePinchHand == MkHand(9, 2, 14, 2, 6, 14, 14)
TwoFingersHand == MkHand(7, 20, 6, 0, 6, 14, 14)
OpenPalmHand == MkHand(9, 20, 6, 0, 6, 6, 6)
FistHand == MkHand(7, 20, 14, 0, 14, 14, 14)

\* every finger combination, with thumb-index distances 0.04, sqrt(0.0024),
\* 0.05 (the threshold itself), sqrt(0.0026) and beyond
ClassifyHands ==
    {MkHand(tx, dx, iy, iz, my, ry, py) :
        tx \in {7, 9}, dx \in {0, 2, 3, 20}, iy \in {6, 14}, iz \in {0, 1, 2},
        my \in {6, 14}, ry \in {6, 14}, py \in {6, 14}}

RecognizerHands ==
    {PointHand, PinchHand, ClosePinchHand, TwoFingersHand, OpenPalmHand, FistHand}

SmoothHands == {PointHand, PinchHand, TwoFingersHand}

SessionHands == {PinchHand}

\* the hand dictionary get_landmarks builds around a landmark list
hand_dict(landmarks, label) ==
    [landmarks |-> landmarks, label |-> label, wrist |-> landmarks[0],
     index_tip |-> landmarks[8], thumb_tip |-> landmarks[4],
     middle_tip |-> landmarks[12]]

(***************************************************************************)
(* app.py: initialisation and the command handlers.  A handler runs as one *)
(* step; the stream_camera thread is interleaved with them step by step.   *)
(***************************************************************************)
Event(name, message) == [name |-> name, message |-> message]

Emitted(by, events) == [by |-> by, events |-> events]

FreshHistory == <<>>
FreshLastGesture == NoneStr
FreshConfidence == 0

\* init_camera: cv2.VideoCapture may raise (camera keeps its value), return
\* a capture that is not opened, or return an opened one
CameraOutcomes == {"raise", "closed", "open"}

init_camera_unchecked(old, outcome) ==
    [camera |-> IF outcome = "raise" THEN old ELSE outcome,
     ok |-> TRUE]

init_camera(old, outcome) ==
    [camera |-> IF outcome = "raise" THEN old ELSE outcome,
     ok |-> outcome = "open"]

\* line 216: if not is_streaming
launch_always(streaming) == TRUE
launch_needed(streaming) == ~streaming

Alive(w) == pc[w] # "idle"

AnyAlive == \E w \in Workers : Alive(w)

FreeSlot(w) == ~Alive(w) /\ \A v \in Workers : v < w => Alive(v)

\* threading.Thread(target=stream_camera).start()
start_thread(w) ==
    /\ pc' = [pc EXCEPT ![w] = "begin"]
    /\ UNCHANGED frame_counter

handle_start_stream ==
    \E cam \in CameraOutcomes, tracker_ok \in BOOLEAN :
        LET need_camera == camera # "open"
            cam_init == IF need_camera THEN init_camera(camera, cam)
                        ELSE [camera |-> camera, ok |-> TRUE]
            need_tracker == ~hand_tracker
        IN  IF ~cam_init.ok THEN
                /\ camera' = cam_init.camera
                /\ out' = Emitted("start_stream",
                                  << Event("error", "Failed to initialize camera") >>)
                /\ UNCHANGED <<hand_tracker, is_streaming, pc, frame_counter>>
                /\ UNCHANGED pipelineVars
            ELSE IF need_tracker /\ ~tracker_ok THEN
                /\ camera' = cam_init.camera
                /\ out' = Emitted("start_stream",
                                  << Event("error", "Failed to initialize hand tracking") >>)
                /\ UNCHANGED <<hand_tracker, is_streaming, pc, frame_counter>>
                /\ UNCHANGED pipelineVars
            ELSE
                /\ camera' = cam_init.camera
                /\ hand_tracker' = TRUE
                /\ IF need_tracker
                   THEN /\ landmark_history' = FreshHistory
                        /\ last_gesture' = FreshLastGesture
                        /\ gesture_confidence' = FreshConfidence
                   ELSE UNCHANGED pipelineVars
                /\ IF launch_needed(is_streaming)
                   THEN /\ is_streaming' = TRUE
                        /\ \E w \in Workers : FreeSlot(w) /\ start_thread(w)
                        /\ out' = Emitted("start_stream",
                                          << Event("stream_started", "ok") >>)
                   ELSE /\ UNCHANGED <<is_streaming, pc, frame_counter>>
                        /\ out' = Emitted("start_stream", <<>>)

handle_stop_stream ==
    /\ is_streaming' = FALSE
    /\ out' = Emitted("stop_stream", << Event("stream_stopped", "ok") >>)
    /\ UNCHANGED <<camera, hand_tracker, pc, frame_counter>>
    /\ UNCHANGED pipelineVars

(***************************************************************************)
(* app.py: the stream_camera thread.                                       *)
(***************************************************************************)
LoopPcs == {"loop", "capture", "process", "pace"}

InLoop(w) == pc[w] \in LoopPcs

\* lines 88-107: the start-up check and the locals.  handle_start_stream only
\* launches with an opened camera and nothing in app.py releases it, so under
\* Spec the error branch needs a camera lost from outside.
worker_begin(w) ==
    /\ pc[w] = "begin"
    /\ IF camera # "open"
       THEN /\ pc' = [pc EXCEPT ![w] = "idle"]
            /\ out' = Emitted("stream_camera",
                              << Event("error", "Camera not available") >>)
            /\ UNCHANGED frame_counter
       ELSE /\ pc' = [pc EXCEPT ![w] = "loop"]
            /\ frame_counter' = [frame_counter EXCEPT ![w] = 0]
            /\ out' = Emitted("stream_camera", <<>>)
    /\ UNCHANGED <<camera, hand_tracker, is_streaming>>
    /\ UNCHANGED pipelineVars

\* line 109: the loop condition
loop_forever(streaming) == TRUE
loop_condition(streaming) == streaming

\* line 109: while is_streaming; the locals end with the thread
worker_check(w) ==
    /\ pc[w] = "loop"
    /\ pc' = [pc EXCEPT ![w] =
                 IF loop_condition(is_streaming) THEN "capture" ELSE "idle"]
    /\ frame_counter' = [frame_counter EXCEPT ![w] =
                 IF loop_condition(is_streaming) THEN @ ELSE 0]
    /\ out' = Emitted("stream_camera", <<>>)
    /\ UNCHANGED <<camera, hand_tracker, is_streaming>>
    /\ UNCHANGED pipelineVars

\* where a capture miss (line 115, continue) resumes
after_miss == "loop"

\* line 113: camera.read() fails on a capture that is not opened
read_outcomes(cam) == IF cam = "open" THEN BOOLEAN ELSE {FALSE}

\* lines 110-115: camera.read()
worker_capture(w) ==
    /\ pc[w] = "capture"
    /\ \E ret \in read_outcomes(camera) :
           pc' = [pc EXCEPT ![w] = IF ret THEN "process" ELSE after_miss]
    /\ out' = Emitted("stream_camera", <<>>)
    /\ UNCHANGED <<camera, hand_tracker, is_streaming, frame_counter>>
    /\ UNCHANGED pipelineVars

\* frame_counter is only read as frame_counter % preview_frame_skip, so it is
\* kept modulo preview_frame_skip
CounterWrap == 1 * preview_frame_skip

\* line 136: the cycles that carry a preview
preview_always(counter) == TRUE
preview_due(counter) == counter % preview_frame_skip = 0

\* line 126: what the detector may return for a frame
DetectorResults == {<<>>} \cup {<<h>> : h \in SessionHands}

\* lines 117-158: detect, smooth, recognize, preview, emit
process_frame(w, detected) ==
    /\ pc[w] = "process"
    /\ \E results \in detected :
           LET got == get_landmarks(landmark_history, results)
               landmarks == got.ret
               rec == IF landmarks # <<>>
                      THEN recognize(landmarks, last_gesture, gesture_confidence)
                      ELSE [ret |-> PyNone, last_gesture |-> last_gesture,
                            gesture_confidence |-> gesture_confidence,
                            gesture |-> PyNone]
               preview == preview_due(frame_counter[w])
           IN  /\ landmark_history' = got.history
               /\ last_gesture' = rec.last_gesture
               /\ gesture_confidence' = rec.gesture_confidence
               /\ out' = Emitted("stream_camera",
                                 << [name |-> "camera_frame",
                                     landmarks |-> landmarks,
                                     gesture |-> rec.ret,
                                     frame |-> preview] >>)
    /\ frame_counter' = [frame_counter EXCEPT ![w] = (@ + 1) % CounterWrap]
    /\ pc' = [pc EXCEPT ![w] = "pace"]
    /\ UNCHANGED <<camera, hand_tracker, is_streaming>>

worker_process(w) == process_frame(w, DetectorResults)

\* lines 179-185: socketio.sleep, then back to the loop condition
worker_pace(w) ==
    /\ pc[w] = "pace"
    /\ pc' = [pc EXCEPT ![w] = "loop"]
    /\ out' = Emitted("stream_camera", <<>>)
    /\ UNCHANGED <<camera, hand_tracker, is_streaming, frame_counter>>
    /\ UNCHANGED pipelineVars

stream_camera(w) ==
    \/ worker_begin(w)
    \/ worker_check(w)
    \/ worker_capture(w)
    \/ worker_process(w)
    \/ worker_pace(w)

(***************************************************************************)
(* The running server: commands from the control channel interleaved with  *)
(* the worker threads.                                                     *)
(***************************************************************************)
FreshCalls ==
    /\ hands_in = <<>>
    /\ gesture = PyNone
    /\ result = PyNone
    /\ calls = 0
    /\ same_type = "start"
    /\ supplied = <<>>
    /\ prev_type = "start"
    /\ no_repeat = TRUE

FreshPipeline ==
    /\ landmark_history = FreshHistory
    /\ last_gesture = FreshLastGesture
    /\ gesture_confidence = FreshConfidence

IdleSession ==
    /\ is_streaming = FALSE
    /\ pc = [w \in Workers |-> "idle"]
    /\ frame_counter = [w \in Workers |-> 0]
    /\ out = Emitted("main", <<>>)
    /\ late_frames = [w \in Workers |-> 0]

\* lines 45-48: the performance globals; the clock starts at the import
FreshPaceAt(t) ==
    /\ now = t
    /\ start_time = 0
    /\ elapsed = 0
    /\ slept = 0
    /\ fps_counter = 0
    /\ last_fps_time = 0
    /\ frame_times = <<>>
    /\ acquired = 0
    /\ completed = 0
    /\ snapshot_times = <<>>

FreshPace == FreshPaceAt(0)

\* after the module's globals and the two init calls of __main__
Init ==
    /\ camera \in {NoneStr, "closed", "open"}
    /\ hand_tracker \in BOOLEAN
    /\ IdleSession
    /\ FreshPipeline
    /\ FreshCalls
    /\ FreshPace

\* frames a thread has emitted while the flag was clear; forgotten when the
\* flag is set again and when the thread ends
count_late(w) ==
    IF pc'[w] = "idle" \/ is_streaming THEN [late_frames EXCEPT ![w] = 0]
    ELSE IF pc[w] = "process"
         THEN [late_frames EXCEPT ![w] = Min(@ + 1, MaxLateFrames)]
         ELSE late_frames

StartCommand ==
    /\ handle_start_stream
    /\ late_frames' = IF is_streaming' THEN [w \in Workers |-> 0] ELSE late_frames
    /\ UNCHANGED callVars
    /\ UNCHANGED paceVars

StopCommand ==
    /\ handle_stop_stream
    /\ UNCHANGED late_frames
    /\ UNCHANGED callVars
    /\ UNCHANGED paceVars

WorkerStep(w) ==
    /\ stream_camera(w)
    /\ late_frames' = count_late(w)
    /\ UNCHANGED callVars
    /\ UNCHANGED paceVars

Next ==
    \/ StartCommand
    \/ StopCommand
    \/ \E w \in Workers : WorkerStep(w)

Spec == Init /\ [][Next]_vars

\* the worker threads keep being scheduled
FairSpec == Spec /\ \A w \in Workers : WF_vars(WorkerStep(w))

(***************************************************************************)
(* Session control.                                                        *)
(***************************************************************************)
InLoopWorkers == {w \in Workers : InLoop(w)}

\* C1: at every moment at most one stream_camera thread is inside the loop.
SingleWorker == Cardinality(InLoopWorkers) <= 1

\* C2: a start_stream received while the flag is set and a worker is alive
\* changes nothing and emits nothing.
StartWhileRunningIsNoOp ==
    [][(out'.by = "start_stream" /\ is_streaming /\ AnyAlive)
        => (/\ UNCHANGED <<camera, hand_tracker, is_streaming, pc, frame_counter>>
            /\ UNCHANGED pipelineVars
            /\ out'.events = <<>>)]_vars

RedundantStartSeen ==
    /\ out = Emitted("start_stream", <<>>)
    /\ is_streaming
    /\ AnyAlive

\* C3: once the flag is cleared while a worker is alive, either a later
\* start_stream sets it again or every worker leaves its loop (session Idle).
StopReachesIdle == (~is_streaming /\ AnyAlive) ~> (is_streaming \/ ~AnyAlive)

WorkerExitedAfterStop ==
    /\ ~is_streaming
    /\ ~AnyAlive
    /\ out.by = "stream_camera"
    /\ out.events = <<>>

\* C4: a start_stream in Idle whose initialisation fails emits exactly one
\* error event, launches nothing and leaves the flag false; and only a
\* start_stream step ever touches the camera or the tracker.
InitFailureReported ==
    [][/\ (/\ out'.by = "start_stream"
           /\ ~is_streaming
           /\ ~AnyAlive
           /\ (camera' # "open" \/ ~hand_tracker'))
          => (/\ Len(out'.events) = 1
              /\ out'.events[1].name = "error"
              /\ pc' = pc
              /\ is_streaming' = FALSE)
       /\ out'.by # "start_stream" => UNCHANGED <<camera, hand_tracker>>]_vars

InitFailureSeen ==
    /\ out.by = "start_stream"
    /\ Len(out.events) = 1
    /\ out.events[1].name = "error"
    /\ ~is_streaming
    /\ ~AnyAlive

(***************************************************************************)
(* GestureRecognizer on its own: a fresh recognizer fed an arbitrary       *)
(* sequence of hands, one recognize call per step.                         *)
(***************************************************************************)
RecognizerInputs ==
    {<<>>} \cup {<<hand_dict(h.landmark, h.label)>> : h \in RecognizerHands}

RecognizeCall ==
    /\ calls < MaxCalls
    /\ \E hands_data \in RecognizerInputs :
           LET rec == recognize(hands_data, last_gesture, gesture_confidence)
           IN  /\ hands_in' = hands_data
               /\ gesture' = rec.gesture
               /\ result' = rec.ret
               /\ last_gesture' = rec.last_gesture
               /\ gesture_confidence' = rec.gesture_confidence
               /\ IF hands_data = <<>>
                  THEN UNCHANGED <<calls, same_type, prev_type, no_repeat>>
                  ELSE /\ calls' = calls + 1
                       /\ same_type' = IF calls = 0 \/ same_type = rec.gesture.type
                                       THEN rec.gesture.type
                                       ELSE "mixed"
                       /\ prev_type' = rec.gesture.type
                       /\ no_repeat' = (no_repeat /\ rec.gesture.type # prev_type)
    /\ UNCHANGED <<landmark_history, supplied>>
    /\ UNCHANGED sessionVars
    /\ UNCHANGED paceVars

RecognizerInit ==
    /\ camera = NoneStr
    /\ hand_tracker = FALSE
    /\ IdleSession
    /\ FreshPipeline
    /\ FreshCalls
    /\ FreshPace

RecognizerSpec == RecognizerInit /\ [][RecognizeCall]_vars

(***************************************************************************)
(* _classify_gesture on its own: one hand drawn from ClassifyHands,        *)
(* classified in one step.                                                 *)
(***************************************************************************)
ClassifyCall ==
    /\ calls = 0
    /\ LET hand == hands_in[1]
       IN  gesture' = classify_gesture(detect_fingers_up(hand.landmarks),
                                       hand.landmarks, hand)
    /\ calls' = 1
    /\ UNCHANGED <<hands_in, result, same_type, supplied, prev_type, no_repeat>>
    /\ UNCHANGED pipelineVars
    /\ UNCHANGED sessionVars
    /\ UNCHANGED paceVars

ClassifyInit ==
    /\ camera = NoneStr
    /\ hand_tracker = FALSE
    /\ IdleSession
    /\ FreshPipeline
    /\ hands_in \in {<<hand_dict(h.landmark, h.label)>> : h \in ClassifyHands}
    /\ gesture = PyNone
    /\ result = PyNone
    /\ calls = 0
    /\ same_type = "start"
    /\ supplied = <<>>
    /\ prev_type = "start"
    /\ no_repeat = TRUE
    /\ FreshPace

ClassifySpec == ClassifyInit /\ [][ClassifyCall]_vars

(***************************************************************************)
(* HandTracker._smooth_landmarks on its own: a fresh tracker fed an        *)
(* arbitrary sequence of raw landmark lists.                               *)
(***************************************************************************)
SmoothCall ==
    /\ calls < MaxSmoothCalls
    /\ \E h \in SmoothHands :
           LET sm == smooth_landmarks(landmark_history, h.landmark)
           IN  /\ landmark_history' = sm.history
               /\ result' = sm.ret
               /\ supplied' = Append(supplied, h.landmark)
    /\ calls' = calls + 1
    /\ UNCHANGED <<hands_in, gesture, same_type, last_gesture, gesture_confidence>>
    /\ UNCHANGED <<prev_type, no_repeat>>
    /\ UNCHANGED sessionVars
    /\ UNCHANGED paceVars

TrackerInit ==
    /\ camera = NoneStr
    /\ hand_tracker = FALSE
    /\ IdleSession
    /\ FreshPipeline
    /\ FreshCalls
    /\ FreshPace

SmoothSpec == TrackerInit /\ [][SmoothCall]_vars

(***************************************************************************)
(* The confidence state (RecognizerSpec).                                  *)
(***************************************************************************)
\* C5: the confidence is always within [0, 1], and so is every confidence
\* attached to a returned gesture.
ConfidenceInUnitInterval ==
    /\ gesture_confidence \in 0..100
    /\ result # PyNone => result.confidence \in 0..100

ConfidenceSaturated ==
    /\ result # PyNone
    /\ result.type # "none"
    /\ result.confidence = 100
    /\ gesture_confidence = 100

StreakCase ==
    /\ calls >= 1
    /\ hands_in # <<>>
    /\ same_type \notin {"start", "mixed", "none"}

Enriched == ("confidence" :> gesture_confidence) @@ gesture

\* C6 as stated: after n same-type cycles from a fresh recognizer the
\* confidence is min(1.0, 0.15 * n); only the first cycle is suppressed.
StreakAsClaimed ==
    StreakCase =>
        /\ gesture_confidence = Min(100, confidence_increment * calls)
        /\ calls = 1 => result = CanonicalNone
        /\ calls >= 2 => result = Enriched

\* C6 amended: after n same-type cycles from a fresh recognizer the
\* confidence is min(1.0, 0.15 * (n - 1)); the first two cycles are
\* suppressed to the canonical none event and every later one is returned.
StreakConfidence ==
    StreakCase =>
        /\ gesture_confidence = Min(100, confidence_increment * (calls - 1))
        /\ calls <= 2 => result = CanonicalNone
        /\ calls >= 3 => result = Enriched

FifthPinchCycle ==
    /\ calls = 5
    /\ hands_in # <<>>
    /\ same_type = "pinch"
    /\ gesture_confidence = 60
    /\ result.type = "pinch"

InLandmarks == hands_in[1].landmarks

InDistance == calculate_distance(InLandmarks[4], InLandmarks[8])

OnlyIndexUp ==
    /\ InLandmarks[8].y < InLandmarks[6].y
    /\ ~(InLandmarks[12].y < InLandmarks[10].y)
    /\ ~(InLandmarks[16].y < InLandmarks[14].y)
    /\ ~(InLandmarks[20].y < InLandmarks[18].y)

\* C8: index up, middle, ring and pinky down, and distance >= 0.05 always
\* classifies as point, whatever the thumb does; a point never has a
\* distance below the threshold and a pinch never one at or above it.
PointPriority ==
    calls = 1 =>
        /\ (OnlyIndexUp /\ InDistance >= pinch_threshold * pinch_threshold)
               => gesture.type = "point"
        /\ gesture.type = "point" => InDistance >= pinch_threshold * pinch_threshold
        /\ gesture.type = "pinch" => InDistance < pinch_threshold * pinch_threshold

PointAtThreshold ==
    /\ calls = 1
    /\ OnlyIndexUp
    /\ InLandmarks[4].x > InLandmarks[3].x
    /\ InDistance = pinch_threshold * pinch_threshold
    /\ gesture.type = "point"

\* C9: a distance strictly below 0.05 always classifies as pinch, whatever
\* the fingers do, with that distance and the thumb/index midpoint.
PinchPreempts ==
    (calls = 1 /\ InDistance < pinch_threshold * pinch_threshold) =>
        /\ gesture.type = "pinch"
        /\ gesture.distance = InDistance
        /\ gesture.position =
               [x |-> (InLandmarks[4].x + InLandmarks[8].x) \div 2,
                y |-> (InLandmarks[4].y + InLandmarks[8].y) \div 2]

PinchWithIndexOnly ==
    /\ calls = 1
    /\ OnlyIndexUp
    /\ InDistance < pinch_threshold * pinch_threshold
    /\ gesture.type = "pinch"

(***************************************************************************)
(* The smoothing window (SmoothSpec).                                      *)
(***************************************************************************)
LastSupplied(n) == SubSeq(supplied, Len(supplied) - n + 1, Len(supplied))

\* C10: the window never holds more than history_size samples, and it is
\* always the most recent min(history_size, n) of the n samples supplied,
\* in arrival order.
WindowBounded ==
    /\ Len(landmark_history) <= history_size
    /\ landmark_history = LastSupplied(Min(history_size, Len(supplied)))

WindowEvicted ==
    /\ Len(supplied) > history_size + 1
    /\ Len(landmark_history) = history_size
    /\ landmark_history[1] # supplied[1]
    /\ landmark_history[1] # landmark_history[history_size]

(***************************************************************************)
(* hand_tracker.py: the moving average in floating point.  Python floats   *)
(* round every addition and the final division to the nearest value of     *)
(* 53 significant bits, ties to even.  Here a float is a non-negative      *)
(* integer count of sub-units with at most FloatBits significant bits, and *)
(* the same rounding is applied; everything else of _smooth_landmarks is   *)
(* as above.                                                               *)
(***************************************************************************)
GuardUnits == 2 * 2   \* sub-units per unit in the last place of a sample

RECURSIVE significand_scale(_, _, _)
\* the power of two s with  num / den < 2^FloatBits * s, starting from s
significand_scale(num, den, s) ==
    IF num < (2 ^ FloatBits) * s * den THEN s
    ELSE significand_scale(num, den, 2 * s)

\* num / den rounded to FloatBits significant bits, ties to even
float_round(num, den) ==
    LET s == significand_scale(num, den, 1)
        q == num \div (den * s)
        rem == num - q * den * s
        up == 2 * rem > den * s \/ (2 * rem = den * s /\ q % 2 = 1)
    IN  (IF up THEN q + 1 ELSE q) * s

float_add(a, b) == float_round(a + b, 1)

float_div(a, n) == float_round(a, n)

RECURSIVE float_sum(_, _, _, _)
\* sum(h[i][c] for h in history): 0 + h1 + h2 + ..., rounded at every step
float_sum(history, i, c, n) ==
    IF n = 0 THEN 0
    ELSE float_add(float_sum(history, i, c, n - 1),
                   CASE c = "x" -> history[n][i].x
                     [] c = "y" -> history[n][i].y
                     [] c = "z" -> history[n][i].z)

float_moving_average(history) ==
    [i \in LandmarkIds |->
        [x |-> float_div(float_sum(history, i, "x", Len(history)), Len(history)),
         y |-> float_div(float_sum(history, i, "y", Len(history)), Len(history)),
         z |-> float_div(float_sum(history, i, "z", Len(history)), Len(history))]]

float_smooth_stale(history, landmarks) ==
    [history |-> push_history(history, landmarks),
     ret |-> IF Len(history) < 2 THEN landmarks ELSE float_moving_average(history)]

\* HandTracker._smooth_landmarks on floats
float_smooth_landmarks(history, landmarks) ==
    LET h == push_history(history, landmarks)
    IN  [history |-> h,
         ret |-> IF Len(h) < 2 THEN landmarks ELSE float_moving_average(h)]

\* significands at the bottom, near the bottom and at the top of a binade
FloatSignificands == {2 ^ (FloatBits - 1), 2 ^ (FloatBits - 1) + 2, 2 ^ FloatBits - 2}

\* a raw landmark list whose coordinates are floats of significand m
FloatSample(m) ==
    [i \in LandmarkIds |->
        [x |-> m * GuardUnits, y |-> 2 * m * GuardUnits, z |-> m * GuardUnits]]

FloatSmoothCall ==
    /\ calls < MaxFloatCalls
    /\ \E m \in FloatSignificands :
           LET sm == float_smooth_landmarks(landmark_history, FloatSample(m))
           IN  /\ landmark_history' = sm.history
               /\ result' = sm.ret
               /\ supplied' = Append(supplied, FloatSample(m))
    /\ calls' = calls + 1
    /\ UNCHANGED <<hands_in, gesture, same_type, last_gesture, gesture_confidence>>
    /\ UNCHANGED <<prev_type, no_repeat>>
    /\ UNCHANGED sessionVars
    /\ UNCHANGED paceVars

FloatSmoothSpec == TrackerInit /\ [][FloatSmoothCall]_vars

Newest == supplied[Len(supplied)]

\* the latest history_size samples supplied were all the same
WindowOfIdentical ==
    /\ Len(supplied) >= history_size
    /\ \A k \in 1..history_size : supplied[Len(supplied) - k + 1] = Newest

Abs(a) == IF a < 0 THEN -a ELSE a

\* |a - b| <= 2^(3 - FloatBits) * b: the rounding of six operations
WithinRounding(a, b) == (2 ^ (FloatBits - 3)) * Abs(a - b) <= b

\* C11 as stated: after history_size or more identical samples smooth returns
\* exactly that sample, and the first call on an empty window returns its input.
SmoothIdentityExact ==
    /\ WindowOfIdentical => result = Newest
    /\ Len(supplied) = 1 => result = Newest

\* C11 amended: after history_size or more identical samples smooth returns
\* that sample up to the rounding of the sum and the division, coordinate by
\* coordinate; the first call on an empty window returns its input unchanged.
SmoothIdentityRounded ==
    /\ WindowOfIdentical =>
           \A i \in LandmarkIds :
               /\ WithinRounding(result[i].x, Newest[i].x)
               /\ WithinRounding(result[i].y, Newest[i].y)
               /\ WithinRounding(result[i].z, Newest[i].z)
    /\ Len(supplied) = 1 => result = Newest

RoundedAverageSeen ==
    /\ Len(supplied) > history_size
    /\ WindowOfIdentical
    /\ supplied[1] # Newest
    /\ result # Newest

(***************************************************************************)
(* The camera_frame event of a cycle without a hand.                       *)
(***************************************************************************)
FrameEvent ==
    /\ out.by = "stream_camera"
    /\ Len(out.events) = 1
    /\ out.events[1].name = "camera_frame"

\* C12: the camera_frame event of a cycle that acquired a frame in which no
\* hand was detected carries the gesture {type: none, confidence: 0}.
NoHandCarriesCanonicalNone ==
    (FrameEvent /\ out.events[1].landmarks = <<>>)
        => out.events[1].gesture = CanonicalNone

(***************************************************************************)
(* Redundant stop, restart and type changes.                               *)
(***************************************************************************)
\* C15: a stop_stream received while the session is Idle changes no session
\* state and emits no event.
StopWhileIdleIsNoOp ==
    [][(out'.by = "stop_stream" /\ ~is_streaming /\ ~AnyAlive)
        => (/\ UNCHANGED <<camera, hand_tracker, is_streaming, pc, frame_counter>>
            /\ UNCHANGED pipelineVars
            /\ out'.events = <<>>)]_vars

\* the thread of a session that runs alone, about to start its first cycle
SessionStarting ==
    \E w \in Workers :
        /\ pc[w] = "begin"
        /\ is_streaming
        /\ \A v \in Workers \ {w} : ~Alive(v)

\* C16: the smoothing window is empty when the first cycle of a session
\* runs, also after a restart.
WindowFreshAtSessionStart == SessionStarting => landmark_history = FreshHistory

\* a recognize call whose candidate has another, non-none type than the
\* previous call's candidate
TypeChange ==
    /\ calls' = calls + 1
    /\ last_gesture # FreshLastGesture
    /\ gesture'.type # last_gesture
    /\ gesture'.type # "none"

\* C17 as stated: the call on which the candidate type changes returns the
\* canonical none event.
TypeChangeSuppressed == [][TypeChange => result' = CanonicalNone]_vars

\* C17 amended: the call on which the candidate type changes lowers the
\* confidence by 0.15 (not below 0) and returns the new candidate at once when
\* the lowered confidence is still at least 0.2, the canonical none event
\* otherwise.
TypeChangeRule ==
    [][TypeChange =>
        /\ gesture_confidence' = Max(0, gesture_confidence - confidence_decrement)
        /\ result' = IF gesture_confidence - confidence_decrement >= min_confidence
                     THEN ("confidence" :> gesture_confidence') @@ gesture'
                     ELSE CanonicalNone]_vars

\* the ninth call changes the type at confidence 1.0 and is returned at 0.85
ChangedTypeReturned ==
    /\ calls = 9
    /\ hands_in # <<>>
    /\ same_type = "mixed"
    /\ gesture_confidence = 100 - confidence_decrement
    /\ result # CanonicalNone
    /\ result.type = gesture.type

(***************************************************************************)
(* Cancellation.                                                           *)
(***************************************************************************)
\* C19: after stop_stream has cleared the flag, and until a start_stream
\* sets it again, a thread emits at most one more camera_frame event (the
\* cycle in progress) before it ends.
OneLateFrameAtMost == \A w \in Workers : late_frames[w] <= 1

LateFrameSeen ==
    \E w \in Workers :
        /\ ~is_streaming
        /\ late_frames[w] = 1
        /\ pc[w] = "pace"
        /\ FrameEvent

(***************************************************************************)
(* The camera lost from outside: the capture stops being opened (device    *)
(* unplugged or taken by another process) at any moment.                   *)
(***************************************************************************)
CameraLost ==
    /\ camera = "open"
    /\ camera' = "closed"
    /\ out' = Emitted("camera", <<>>)
    /\ UNCHANGED <<hand_tracker, is_streaming, pc, frame_counter, late_frames>>
    /\ UNCHANGED pipelineVars
    /\ UNCHANGED callVars
    /\ UNCHANGED paceVars

LossNext == Next \/ CameraLost

LossSpec == Init /\ [][LossNext]_vars

CameraNotAvailableReported ==
    out = Emitted("stream_camera", << Event("error", "Camera not available") >>)

\* C20: right after a thread reported 'Camera not available' the session is
\* Idle: the flag is false and no thread is alive.
IdleAfterCameraNotAvailable ==
    CameraNotAvailableReported => (~is_streaming /\ ~AnyAlive)

(***************************************************************************)
(* The stream_camera thread with its clock: preview throttling, the        *)
(* performance window and the pacing sleep.  A tick is half a target frame *)
(* period.  One thread at a time (a start_stream arrives after the         *)
(* previous thread has ended), a frame source that is opened, and a        *)
(* detector that finds no hand.                                            *)
(***************************************************************************)
TicksPerSecond == 2 * target_fps

\* line 94: frame_time = 1.0 / target_fps
frame_time == TicksPerSecond \div target_fps

\* line 168: the 1.0 second window
FpsWindow == 1 * TicksPerSecond

\* the time from line 110 to line 161: under, at and over the frame period
Durations == {frame_time - 1, frame_time, frame_time + 1}

NominalDuration == frame_time - 1

cycle_durations(done) == IF done < MaxVaried THEN Durations ELSE {NominalDuration}

\* line 180
sleep_time_signed(period, spent) == period - spent
sleep_time(period, spent) == Max(0, period - spent)

\* line 168
window_due_always(current, last) == TRUE
window_due(current, last) == current - last >= FpsWindow

\* lines 162-164
push_frame_time(times, spent) ==
    LET added == Append(times, spent)
    IN  IF Len(added) > max_frame_times THEN Tail(added) ELSE added

RECURSIVE SumTimes(_)
SumTimes(times) == IF times = <<>> THEN 0 ELSE Head(times) + SumTimes(Tail(times))

\* round(num / den, 1) in tenths, a tie going to the even digit
round_tenths(num, den) ==
    LET q == (10 * num) \div den
        r == 10 * num - q * den
    IN  IF 2 * r > den \/ (2 * r = den /\ q % 2 = 1) THEN q + 1 ELSE q

\* lines 169-175: fps in tenths of a frame per second, latency in tenths of
\* a millisecond
performance(count, current, last, times) ==
    [name |-> "performance",
     fps |-> round_tenths(count * TicksPerSecond, current - last),
     latency |-> round_tenths(SumTimes(times) * 1000, Len(times) * TicksPerSecond)]

PacerResults == {<<>>}

pacer_begin(w) ==
    /\ worker_begin(w)
    /\ acquired' = 0
    /\ UNCHANGED <<now, start_time, elapsed, slept, fps_counter, last_fps_time,
                   frame_times, completed, snapshot_times>>

pacer_check(w) == worker_check(w) /\ UNCHANGED paceVars

\* line 110: start_time = time.time()
pacer_capture(w) ==
    /\ worker_capture(w)
    /\ start_time' = now
    /\ UNCHANGED <<now, elapsed, slept, fps_counter, last_fps_time,
                   frame_times, acquired, completed, snapshot_times>>

pacer_process(w) ==
    /\ process_frame(w, PacerResults)
    /\ \E d \in cycle_durations(completed) :
           /\ now + d <= MaxTime
           /\ now' = now + d
    /\ acquired' = Min(acquired + 1, MaxCounted)
    /\ UNCHANGED <<start_time, elapsed, slept, fps_counter, last_fps_time,
                   frame_times, completed, snapshot_times>>

\* lines 160-185: latency ring, performance window, sleep
pacer_pace(w) ==
    /\ pc[w] = "pace"
    /\ LET spent == now - start_time
           times == push_frame_time(frame_times, spent)
           count == fps_counter + 1
           nap == sleep_time(frame_time, spent)
       IN  /\ now + nap <= MaxTime
           /\ elapsed' = spent
           /\ frame_times' = times
           /\ IF window_due(now, last_fps_time)
              THEN /\ out' = Emitted("stream_camera",
                                     << performance(count, now, last_fps_time, times) >>)
                   /\ fps_counter' = 0
                   /\ last_fps_time' = now
                   /\ snapshot_times' = Append(snapshot_times, now)
              ELSE /\ out' = Emitted("stream_camera", <<>>)
                   /\ fps_counter' = count
                   /\ UNCHANGED <<last_fps_time, snapshot_times>>
           /\ slept' = nap
           /\ now' = now + nap
    /\ completed' = Min(completed + 1, MaxVaried)
    /\ pc' = [pc EXCEPT ![w] = "loop"]
    /\ UNCHANGED <<camera, hand_tracker, is_streaming, frame_counter>>
    /\ UNCHANGED pipelineVars
    /\ UNCHANGED <<start_time, acquired>>

PacerStep(w) ==
    /\ \/ pacer_begin(w)
       \/ pacer_check(w)
       \/ pacer_capture(w)
       \/ pacer_process(w)
       \/ pacer_pace(w)
    /\ UNCHANGED late_frames
    /\ UNCHANGED callVars

PacerStart ==
    /\ ~AnyAlive
    /\ handle_start_stream
    /\ UNCHANGED late_frames
    /\ UNCHANGED callVars
    /\ UNCHANGED paceVars

PacerStop ==
    /\ is_streaming
    /\ handle_stop_stream
    /\ UNCHANGED late_frames
    /\ UNCHANGED callVars
    /\ UNCHANGED paceVars

\* the first start_stream arrives right after the import or a second later
ImportAges == {0, FpsWindow}

PacerInit ==
    /\ camera = "open"
    /\ hand_tracker = TRUE
    /\ IdleSession
    /\ FreshPipeline
    /\ FreshCalls
    /\ \E t \in ImportAges : FreshPaceAt(t)

PacerNext ==
    \/ PacerStart
    \/ PacerStop
    \/ \E w \in Workers : PacerStep(w)

PacerSpec == PacerInit /\ [][PacerNext]_vars

FrameStep == \E w \in Workers : pc[w] = "process" /\ pc'[w] = "pace"

MissStep == \E w \in Workers : pc[w] = "capture" /\ pc'[w] = "loop"

PaceStep == \E w \in Workers : pc[w] = "pace" /\ pc'[w] = "loop"

\* C13: the camera_frame event of the k-th acquired frame of a thread
\* (k from 0) carries a preview exactly when k mod 2 = 0; a capture miss
\* emits nothing and leaves the counter alone.
PreviewEveryOtherFrame ==
    [][/\ (FrameStep /\ acquired < MaxCounted)
          => (/\ out'.by = "stream_camera"
              /\ Len(out'.events) = 1
              /\ out'.events[1].name = "camera_frame"
              /\ out'.events[1].frame <=> (acquired % preview_frame_skip = 0))
       /\ MissStep
          => (/\ out'.events = <<>>
              /\ UNCHANGED <<frame_counter, acquired>>)]_vars

\* the first frame of a thread started after an earlier cycle completed
PreviewAfterRestart ==
    /\ FrameEvent
    /\ acquired = 1
    /\ completed >= 1
    /\ out.events[1].frame

\* C14: a completed cycle sleeps frame_time - elapsed when it finished
\* within the frame period and 0 when it overran, never a negative time,
\* in one socketio.sleep call.
SleepNeverNegative ==
    [][PaceStep =>
        /\ elapsed' = now - start_time
        /\ slept' = IF elapsed' <= frame_time THEN frame_time - elapsed' ELSE 0
        /\ slept' >= 0
        /\ now' = now + slept']_vars

OverrunYieldsZero ==
    /\ completed >= 1
    /\ elapsed > frame_time
    /\ slept = 0

PerformanceEvent ==
    /\ out.by = "stream_camera"
    /\ Len(out.events) = 1
    /\ out.events[1].name = "performance"

SnapshotsApart ==
    \A i \in 1..(Len(snapshot_times) - 1) :
        snapshot_times[i + 1] - snapshot_times[i] >= FpsWindow

\* C18 as stated: a completed cycle emits a performance event exactly when
\* a second has passed since the window start; its fps is the cycle count
\* divided by the elapsed time; the count and the window start are reset;
\* snapshots are a second apart and the ring holds at most 60 samples.
SnapshotExactFps ==
    /\ [][PaceStep =>
            /\ PerformanceEvent' <=> (now - last_fps_time >= FpsWindow)
            /\ PerformanceEvent' =>
                 /\ out'.events[1].fps * (now - last_fps_time)
                        = 10 * (fps_counter + 1) * TicksPerSecond
                 /\ fps_counter' = 0
                 /\ last_fps_time' = now]_vars
    /\ [](SnapshotsApart /\ Len(frame_times) <= max_frame_times)

\* C18 amended: as above, the fps being the quotient rounded to one decimal.
SnapshotRoundedFps ==
    /\ [][PaceStep =>
            /\ PerformanceEvent' <=> (now - last_fps_time >= FpsWindow)
            /\ PerformanceEvent' =>
                 /\ 2 * Abs(out'.events[1].fps * (now - last_fps_time)
                            - 10 * (fps_counter + 1) * TicksPerSecond)
                        <= now - last_fps_time
                 /\ fps_counter' = 0
                 /\ last_fps_time' = now
            /\ ~PerformanceEvent' =>
                 /\ fps_counter' = fps_counter + 1
                 /\ UNCHANGED last_fps_time]_vars
    /\ [](SnapshotsApart /\ Len(frame_times) <= max_frame_times)

SecondSnapshotSeen ==
    /\ PerformanceEvent
    /\ Len(snapshot_times) >= 2
    /\ Len(frame_times) = max_frame_times
    /\ fps_counter = 0

(***************************************************************************)
(* A hand that disappears and reappears.                                   *)
(***************************************************************************)
\* C21: a cycle in which no hand is detected leaves the smoothing window,
\* last_gesture and the confidence as they were.
NoHandKeepsPipeline ==
    [][(/\ FrameStep
        /\ out'.by = "stream_camera"
        /\ Len(out'.events) = 1
        /\ out'.events[1].landmarks = <<>>)
       => UNCHANGED pipelineVars]_vars

\* a no-hand cycle after cycles with a hand
HandGoneStateKept ==
    /\ FrameEvent
    /\ out.events[1].landmarks = <<>>
    /\ Len(landmark_history) >= 2
    /\ last_gesture # FreshLastGesture
    /\ gesture_confidence > 0

====
